---- MODULE Spec2Model ----
(***************************************************************************)
(* Model of the rdp sensor ingestion pipeline:                             *)
(*   rdp/crud/model.py   the tables and their constraints                  *)
(*   rdp/crud/crud.py    the store operations (class Crud)                 *)
(*   rdp/sensor/reader.py the background reader thread (class Reader)      *)
(*                                                                         *)
(* The database is SQLite (api/main.py:104).  Every session.commit() is    *)
(* one atomic step of the store; statements of different sessions          *)
(* interleave between commits.  SQLite treats the NULLs of a UNIQUE        *)
(* constraint as distinct and does not enforce foreign keys unless asked   *)
(* to, which nothing in the sources does.                                  *)
(*                                                                         *)
(* Reader.start calls add_device(name=, description=, location_id=), and   *)
(* so does api/main.py:190, while Crud.add_device (crud.py:128) has no     *)
(* location_id parameter: with this Crud the call raises TypeError and no  *)
(* thread is ever created.  takes_location_id = FALSE is that Crud;        *)
(* takes_location_id = TRUE is a Crud whose add_device takes the           *)
(* parameter, the only one under which Reader._run runs at all.            *)
(***************************************************************************)
EXTENDS Integers, Sequences, FiniteSets, TLC

\* ------------------------------------------------------------------------
\* Bounds of the model
\* ------------------------------------------------------------------------
MaxValues == 2

\* Python None / SQL NULL.  An optional x is NULL or Some(x).
NULL == {}
Some(x) == {x}
The(o) == CHOOSE x \in o : TRUE

\* request-layer callers of the store, and the Thread objects of the Reader
Callers == {"c1", "c2"}
Threads == {"t1", "t2"}
Procs == Callers \cup Threads

\* ids the store assigns to devices; ids a producer assigns to value types
DeviceIds == {1, 2}
TypeIds == {1, 2}

\* float32 values as sign / biased exponent / mantissa
Float(s, e, m) == [sign |-> s, exp |-> e, man |-> m]
F1 == Float(0, 127, 0)
F2 == Float(0, 128, 0)

\* inputs of the request-layer add_value calls: time, type, value, device
Inputs(T, Ty, V, D) == [times |-> T, types |-> Ty, values |-> V, devices |-> D]

VARIABLES
  value_type,        \* table value_type: id -> NULL (no row) or the row
  value,             \* table value: set of rows
  device,            \* table device: set of ids
  takes_location_id, \* whether Crud.add_device has a location_id parameter
  av,                \* per process: the frame of its add_value call
  self_thread,       \* Reader._thread
  tpc,               \* per Thread: position in Reader._run
  terr,              \* per Thread: why it left _run
  device_id,         \* per Thread: local device_id
  test,              \* per Thread: local test (the bytes read)
  count,             \* per Thread: local count
  mpc,               \* position of the caller of start()/stop()
  mthread,           \* local thread of stop()
  mres               \* outcome of the last start()/stop()

vars == <<value_type, value, device, takes_location_id, av, self_thread,
          tpc, terr, device_id, test, count, mpc, mthread, mres>>

storeVars == <<value_type, value, device>>
readerVars == <<self_thread, tpc, terr, device_id, test, count, mpc, mthread, mres>>

\* ------------------------------------------------------------------------
\* The store (model.py)
\* ------------------------------------------------------------------------
SetMax(S) == CHOOSE x \in S : \A y \in S : y <= x

\* integer primary key of SQLite: largest id in the table plus one
NextRowId(ids) == IF ids = {} THEN 1 ELSE SetMax(ids) + 1

ValueRow(i, t, v, ty, d) ==
  [id |-> i, time |-> t, value |-> v, value_type_id |-> ty, device_id |-> d]

\* the table without its UniqueConstraint
UniqueViolation_None(rows, t, ty, d) == FALSE

\* a constraint under which two NULL device_ids compare equal
UniqueViolation_NullsEqual(rows, t, ty, d) ==
  \E r \in rows : r.time = t /\ r.value_type_id = ty /\ r.device_id = d

\* UniqueConstraint("time", "value_type_id", "device_id"): a NULL device_id
\* compares equal to nothing, so rows without a device never conflict
UniqueViolation(rows, t, ty, d) ==
  /\ d # NULL
  /\ \E r \in rows : r.time = t /\ r.value_type_id = ty /\ r.device_id = d

\* "TYPE_%d" % id and "UNIT_%d" % id
Digits(id) == <<"0", "1", "2", "3", "4", "5", "6", "7", "8", "9">>[id + 1]
TypeNameDefault(id) == "TYPE_" \o Digits(id)
TypeUnitDefault(id) == "UNIT_" \o Digits(id)

\* Python truthiness of a str-or-None
Truthy(s) == s # NULL /\ s # Some("")

\* an upsert that sets the placeholder whenever no name or unit is supplied
UpsertFields_Reset(loaded, id, name, unit) ==
  [type_name |-> IF Truthy(name) THEN name ELSE Some(TypeNameDefault(id)),
   type_unit |-> IF Truthy(unit) THEN unit ELSE Some(TypeUnitDefault(id))]

\* an upsert that stores whatever str is supplied, the empty one too
UpsertFields_Blank(loaded, id, name, unit) ==
  LET old == IF loaded = NULL THEN [type_name |-> NULL, type_unit |-> NULL]
             ELSE The(loaded)
  IN [type_name |-> IF name # NULL THEN name
                    ELSE IF ~Truthy(old.type_name) THEN Some(TypeNameDefault(id))
                    ELSE old.type_name,
      type_unit |-> IF unit # NULL THEN unit
                    ELSE IF ~Truthy(old.type_unit) THEN Some(TypeUnitDefault(id))
                    ELSE old.type_unit]

\* the fields add_or_update_value_type leaves on db_type (crud.py:41-50);
\* loaded is the row the select returned, NULL when it returned none
UpsertFields(loaded, id, name, unit) ==
  LET old == IF loaded = NULL THEN [type_name |-> NULL, type_unit |-> NULL]
             ELSE The(loaded)
  IN [type_name |-> IF Truthy(name) THEN name
                    ELSE IF ~Truthy(old.type_name) THEN Some(TypeNameDefault(id))
                    ELSE old.type_name,
      type_unit |-> IF Truthy(unit) THEN unit
                    ELSE IF ~Truthy(old.type_unit) THEN Some(TypeUnitDefault(id))
                    ELSE old.type_unit]

\* ------------------------------------------------------------------------
\* Crud.add_value (crud.py:55-73) as the steps of one call frame
\* ------------------------------------------------------------------------
IdleFrame == [pc |-> "idle"]

CallFrame(t, ty, v, d) ==
  [pc |-> "select", time |-> t, type |-> ty, value |-> v,
   device |-> d, loaded |-> NULL, ret |-> "", table |-> ""]

\* the call has returned (ret = "ok") or raised ret, which names the table
\* whose constraint failed
Done(f, ret, table) == [f EXCEPT !.pc = "done", !.ret = ret, !.table = table]

\* a request-layer caller calls add_value(t, ty, v, d)
AddValueCall(c, t, ty, v, d) ==
  /\ c \in Callers
  /\ av[c].pc \in {"idle", "done"}
  /\ av' = [av EXCEPT ![c] = CallFrame(t, ty, v, d)]
  /\ UNCHANGED <<storeVars, takes_location_id, readerVars>>

\* add_or_update_value_type, crud.py:37-40: the select
AddValueSelect(p) ==
  /\ av[p].pc = "select"
  /\ av' = [av EXCEPT ![p].pc = "commit", ![p].loaded = value_type[av[p].type]]
  /\ UNCHANGED <<storeVars, takes_location_id, readerVars>>

\* add_or_update_value_type, crud.py:41-53: fill the fields and commit.
\* A ValueType built at line 42 is INSERTed and hits the primary key when
\* another session has committed the same id since the select.
AddValueTypeCommit(p) ==
  /\ av[p].pc = "commit"
  /\ LET f == av[p]
         fields == UpsertFields(f.loaded, f.type, NULL, NULL)
     IN IF f.loaded = NULL /\ value_type[f.type] # NULL
        THEN /\ av' = [av EXCEPT ![p] = Done(f, "IntegrityError", "value_type")]
             /\ UNCHANGED value_type
        ELSE /\ value_type' = [value_type EXCEPT ![f.type] =
                                 IF f.loaded = NULL \/ Some(fields) # f.loaded
                                 THEN Some(fields) ELSE @]
             /\ av' = [av EXCEPT ![p].pc = "insert"]
  /\ UNCHANGED <<value, device, takes_location_id, readerVars>>

\* an insert that replaces the stored row of the same triple
AddValueInsert_Overwrite(p, locked) ==
  /\ av[p].pc = "insert"
  /\ ~locked
  /\ LET f == av[p]
         kept == {r \in value : ~(r.time = f.time /\ r.value_type_id = f.type
                                  /\ r.device_id = f.device)}
     IN /\ Cardinality(kept) < MaxValues
        /\ value' = kept \cup
             {ValueRow(NextRowId({r.id : r \in value}), f.time, f.value, f.type, f.device)}
        /\ av' = [av EXCEPT ![p] = Done(f, "ok", "")]
  /\ UNCHANGED <<value_type, device, takes_location_id, readerVars>>

\* crud.py:66-73: the Value is INSERTed and committed; only the unique
\* constraint is checked, the foreign keys are not.  locked: the engine
\* rejects the commit for a reason of its own (OperationalError, such as
\* "database is locked").
AddValueInsert(p, locked) ==
  /\ av[p].pc = "insert"
  /\ LET f == av[p]
     IN IF locked
        THEN /\ av' = [av EXCEPT ![p] = Done(f, "OperationalError", "")]
             /\ UNCHANGED value
        ELSE IF UniqueViolation(value, f.time, f.type, f.device)
        THEN /\ av' = [av EXCEPT ![p] = Done(f, "IntegrityError", "value")]
             /\ UNCHANGED value
        ELSE /\ Cardinality(value) < MaxValues
             /\ value' = value \cup
                  {ValueRow(NextRowId({r.id : r \in value}), f.time, f.value, f.type, f.device)}
             /\ av' = [av EXCEPT ![p] = Done(f, "ok", "")]
  /\ UNCHANGED <<value_type, device, takes_location_id, readerVars>>

\* ------------------------------------------------------------------------
\* Crud.add_or_update_value_type (crud.py:20-53) called by the request layer
\* ------------------------------------------------------------------------
\* strid: the id is a str.  put_type (main.py:56) declares its path
\* parameter id without a type, so the id it passes on is the str of the URL;
\* SQLite stores and compares it as the integer it spells.
UpsertFrame(id, strid, name, unit) ==
  [pc |-> "u_select", type |-> id, strid |-> strid, name |-> name, unit |-> unit,
   loaded |-> NULL, ret |-> "", table |-> ""]

\* a caller of Crud calls add_or_update_value_type(id, name, unit)
UpsertCall(c, id, name, unit) ==
  /\ c \in Callers
  /\ av[c].pc = "idle"
  /\ av' = [av EXCEPT ![c] = UpsertFrame(id, FALSE, name, unit)]
  /\ UNCHANGED <<storeVars, takes_location_id, readerVars>>

\* main.py:71: put_type calls add_or_update_value_type(id, type_name, type_unit);
\* both are str fields of the request body (api_types.py:4-6), never None
PutType(c, id, name, unit) ==
  /\ c \in Callers
  /\ av[c].pc = "idle"
  /\ av' = [av EXCEPT ![c] = UpsertFrame(id, TRUE, Some(name), Some(unit))]
  /\ UNCHANGED <<storeVars, takes_location_id, readerVars>>

\* crud.py:37-40: the select
UpsertSelect(p) ==
  /\ av[p].pc = "u_select"
  /\ av' = [av EXCEPT ![p].pc = "u_commit", ![p].loaded = value_type[av[p].type]]
  /\ UNCHANGED <<storeVars, takes_location_id, readerVars>>

\* lines 46 and 50 are reached: "TYPE_%d" % id raises TypeError for a str id
FormatsDefault(loaded, name, unit) ==
  LET old == IF loaded = NULL THEN [type_name |-> NULL, type_unit |-> NULL]
             ELSE The(loaded)
  IN \/ ~Truthy(name) /\ ~Truthy(old.type_name)
     \/ ~Truthy(unit) /\ ~Truthy(old.type_unit)

\* the UPDATE of the flush sets the columns whose value differs from the
\* value loaded, and leaves the others as they are stored
Update(stored, loaded, fields) ==
  [type_name |-> IF fields.type_name # loaded.type_name
                 THEN fields.type_name ELSE stored.type_name,
   type_unit |-> IF fields.type_unit # loaded.type_unit
                 THEN fields.type_unit ELSE stored.type_unit]

\* crud.py:41-53: fill the fields, flush and commit
UpsertCommit(p) ==
  /\ av[p].pc = "u_commit"
  /\ LET f == av[p]
         fields == UpsertFields(f.loaded, f.type, f.name, f.unit)
         return(ret, table) == [f EXCEPT !.pc = "u_done", !.ret = ret, !.table = table]
     IN IF f.strid /\ FormatsDefault(f.loaded, f.name, f.unit)
        THEN /\ av' = [av EXCEPT ![p] = return("TypeError", "")]
             /\ UNCHANGED value_type
        ELSE IF f.loaded = NULL /\ value_type[f.type] # NULL
        THEN /\ av' = [av EXCEPT ![p] = return("IntegrityError", "value_type")]
             /\ UNCHANGED value_type
        ELSE /\ value_type' = [value_type EXCEPT ![f.type] =
                                 IF f.loaded = NULL THEN Some(fields)
                                 ELSE Some(Update(The(@), The(f.loaded), fields))]
             /\ av' = [av EXCEPT ![p] = return("ok", "")]
  /\ UNCHANGED <<value, device, takes_location_id, readerVars>>

\* the caller has the result or the exception of its call
UpsertReturn(c) ==
  /\ c \in Callers
  /\ av[c].pc = "u_done"
  /\ av' = [av EXCEPT ![c] = IdleFrame]
  /\ UNCHANGED <<storeVars, takes_location_id, readerVars>>

\* ------------------------------------------------------------------------
\* Crud.get_values (crud.py:99-123)
\* ------------------------------------------------------------------------
\* a query whose start bound is exclusive
Matching_Strict(rows, types, ty, start, end) ==
  {r \in rows :
     /\ ty # NULL => types[r.value_type_id] # NULL /\ r.value_type_id = The(ty)
     /\ start # NULL => r.time > The(start)
     /\ end # NULL => r.time <= The(end)}

\* lines 115-121: select(Value), joined to its value type and filtered by
\* the id of that, by time >= start and by time <= end, each only when given
Matching(rows, types, ty, start, end) ==
  LET joined == IF ty # NULL
                THEN {r \in rows : types[r.value_type_id] # NULL /\ r.value_type_id = The(ty)}
                ELSE rows
      from == IF start # NULL THEN {r \in joined : r.time >= The(start)} ELSE joined
  IN IF end # NULL THEN {r \in from : r.time <= The(end)} ELSE from

\* line 122: order_by(Value.time); rows of equal time come in any order
OrderByTime(rows) ==
  {s \in [1..Cardinality(rows) -> rows] :
     /\ \A i, j \in DOMAIN s : i # j => s[i] # s[j]
     /\ \A i, j \in DOMAIN s : i < j => s[i].time <= s[j].time}

QueryFrame(ty, start, end, result) ==
  [pc |-> "q_done", type |-> ty, start |-> start, end |-> end, result |-> result]

\* get_values(ty, start, end): one SELECT, answered from one state of the store
GetValues(c, ty, start, end) ==
  /\ c \in Callers
  /\ av[c].pc \in {"idle", "q_done"}
  /\ \E result \in OrderByTime(Matching(value, value_type, ty, start, end)) :
       av' = [av EXCEPT ![c] = QueryFrame(ty, start, end, result)]
  /\ UNCHANGED <<storeVars, takes_location_id, readerVars>>

\* ------------------------------------------------------------------------
\* Devices (crud.py:128-141, 187-196)
\* ------------------------------------------------------------------------
\* Crud.add_device: the INSERT commits, or the store rejects it and the
\* IntegrityError is re-raised after the rollback
AddDevice(accepted) ==
  /\ IF accepted
     THEN /\ NextRowId(device) \in DeviceIds
          /\ device' = device \cup {NextRowId(device)}
     ELSE UNCHANGED device
  /\ UNCHANGED <<value_type, value, takes_location_id, av, readerVars>>

\* a delete that leaves the values of the device where they are
DeleteDevice_NoCascade(d) ==
  /\ IF d \in device
     THEN device' = device \ {d} /\ UNCHANGED value
     ELSE UNCHANGED <<device, value>>
  /\ UNCHANGED <<value_type, takes_location_id, av, readerVars>>

\* a delete that takes the values of no device along
DeleteDevice_Unassigned(d) ==
  /\ IF d \in device
     THEN /\ device' = device \ {d}
          /\ value' = {r \in value : r.device_id \notin {NULL, Some(d)}}
     ELSE UNCHANGED <<device, value>>
  /\ UNCHANGED <<value_type, takes_location_id, av, readerVars>>

DeviceFrame(d, ret) == [pc |-> "d_done", device |-> d, ret |-> ret]

\* Crud.update_device (crud.py:144-164): .one() raises NoResultFound for an
\* unknown id; name and description of the device row are set and committed,
\* columns that no other operation reads
UpdateDevice(c, d) ==
  /\ c \in Callers
  /\ av[c].pc = "idle"
  /\ av' = [av EXCEPT ![c] = DeviceFrame(d, IF d \in device THEN "ok" ELSE "NoResultFound")]
  /\ UNCHANGED <<storeVars, takes_location_id, readerVars>>

\* the caller has the outcome of update_device
UpdateDeviceReturn(c) ==
  /\ c \in Callers
  /\ av[c].pc = "d_done"
  /\ av' = [av EXCEPT ![c] = IdleFrame]
  /\ UNCHANGED <<storeVars, takes_location_id, readerVars>>

\* Crud.delete_device: .one() raises NoResultFound for an unknown id; the
\* delete cascades to the values of the device (model.py:18)
DeleteDevice(d) ==
  /\ IF d \in device
     THEN /\ device' = device \ {d}
          /\ value' = {r \in value : r.device_id # Some(d)}
     ELSE UNCHANGED <<device, value>>
  /\ UNCHANGED <<value_type, takes_location_id, av, readerVars>>

\* ------------------------------------------------------------------------
\* The record read from the device file and its decoding (reader.py:51-59)
\* ------------------------------------------------------------------------
RECURSIVE LittleEndian(_, _)
LittleEndian(n, k) ==
  IF k = 0 THEN <<>> ELSE <<n % 256>> \o LittleEndian(n \div 256, k - 1)

F1Bytes == <<0, 0, 128, 63>>

\* the 16-byte records the device file holds
Record(t, ty, v) == LittleEndian(t, 8) \o LittleEndian(ty, 4) \o v
Records == { Record(1, 1, F1Bytes) }

\* f.read(16) returns at most 16 bytes of a record
Reads == { SubSeq(r, 1, n) : r \in Records, n \in 0..16 }

\* a decoder that takes the first byte of a field for the whole field
Accumulate_FirstByte(b, off, n) == b[off + 1]

\* value |= test[i + off] << 8 * i for i in range(n); the bytes occupy
\* disjoint bits, so the or is a sum
RECURSIVE Accumulate(_, _, _)
Accumulate(b, off, n) ==
  IF n = 0 THEN 0 ELSE b[off + 1] + 256 * Accumulate(b, off + 1, n - 1)

\* struct.unpack("f", b)[0] of four bytes, least significant first
Unpack_f(b) ==
  Float(b[4] \div 128, (b[4] % 128) * 2 + b[3] \div 128,
        (b[3] % 128) * 65536 + b[2] * 256 + b[1])

\* test[-4::]
Tail4(b) == SubSeq(b, IF Len(b) > 4 THEN Len(b) - 3 ELSE 1, Len(b))

\* test[i] raises IndexError for i >= len(test): the loops of lines 54-58
\* read test[0..11]; unpack needs exactly four bytes
DecodeRaises(b) ==
  IF Len(b) < 12 THEN "IndexError"
  ELSE IF Len(Tail4(b)) # 4 THEN "struct.error"
  ELSE ""

Decode(b) ==
  [time |-> Accumulate(b, 0, 8), type |-> Accumulate(b, 8, 4),
   value |-> Unpack_f(Tail4(b))]

\* ------------------------------------------------------------------------
\* Reader._run (reader.py:45-76), one Thread object th
\* ------------------------------------------------------------------------
LogEvery == 100

Leave(th, pc, why) ==
  /\ tpc' = [tpc EXCEPT ![th] = pc]
  /\ terr' = [terr EXCEPT ![th] = why]
  /\ device_id' = [device_id EXCEPT ![th] = NULL]
  /\ test' = [test EXCEPT ![th] = NULL]
  /\ count' = [count EXCEPT ![th] = 0]

\* a loop that does not look at self._thread
RunWhile_Forever(th) ==
  /\ tpc[th] = "while"
  /\ tpc' = [tpc EXCEPT ![th] = "choice"]
  /\ UNCHANGED <<storeVars, takes_location_id, av, self_thread, terr, device_id, test,
                 count, mpc, mthread, mres>>

\* line 47: while self._thread is not None
RunWhile(th) ==
  /\ tpc[th] = "while"
  /\ IF self_thread = NULL
     THEN Leave(th, "exited", "stopped")
     ELSE /\ tpc' = [tpc EXCEPT ![th] = "choice"]
          /\ UNCHANGED <<terr, device_id, test, count>>
  /\ UNCHANGED <<storeVars, takes_location_id, av, self_thread, mpc, mthread, mres>>

\* line 48: choice(get_all_device_ids()); choice of an empty list raises
RunChoice(th) ==
  /\ tpc[th] = "choice"
  /\ IF device = {}
     THEN Leave(th, "crashed", "IndexError: choice")
     ELSE /\ \E d \in device : device_id' = [device_id EXCEPT ![th] = Some(d)]
          /\ tpc' = [tpc EXCEPT ![th] = "open"]
          /\ UNCHANGED <<terr, test, count>>
  /\ UNCHANGED <<storeVars, takes_location_id, av, self_thread, mpc, mthread, mres>>

\* lines 51-67: open, read, decode, and the call of add_value
RunRead(th, oserror, b) ==
  /\ tpc[th] = "open"
  /\ IF oserror
     THEN Leave(th, "crashed", "OSError") /\ UNCHANGED av
     ELSE IF DecodeRaises(b) # ""
     THEN Leave(th, "crashed", DecodeRaises(b)) /\ UNCHANGED av
     ELSE /\ test' = [test EXCEPT ![th] = Some(b)]
          /\ tpc' = [tpc EXCEPT ![th] = "add_value"]
          /\ av' = [av EXCEPT ![th] =
                      CallFrame(Decode(b).time, Decode(b).type, Decode(b).value, device_id[th])]
          /\ UNCHANGED <<terr, device_id, count>>
  /\ UNCHANGED <<storeVars, takes_location_id, self_thread, mpc, mthread, mres>>

\* lines 66-70: add_value has returned or raised
RunAddValueReturn(th) ==
  /\ tpc[th] = "add_value"
  /\ av[th].pc = "done"
  /\ av' = [av EXCEPT ![th] = IdleFrame]
  /\ IF av[th].ret = "ok"
     THEN /\ tpc' = [tpc EXCEPT ![th] = "sleep"]
          /\ test' = [test EXCEPT ![th] = NULL]
          /\ UNCHANGED <<terr, device_id, count>>
     ELSE IF av[th].ret = "IntegrityError"
     THEN Leave(th, "exited", "All Values read")
     ELSE Leave(th, "crashed", av[th].ret)
  /\ UNCHANGED <<storeVars, takes_location_id, self_thread, mpc, mthread, mres>>

\* lines 72-76
RunSleep(th) ==
  /\ tpc[th] = "sleep"
  /\ tpc' = [tpc EXCEPT ![th] = "while"]
  /\ count' = [count EXCEPT ![th] = IF (@ + 1) % LogEvery = 0 THEN 0 ELSE @ + 1]
  /\ UNCHANGED <<storeVars, takes_location_id, av, self_thread, terr, device_id, test,
                 mpc, mthread, mres>>

\* ------------------------------------------------------------------------
\* Reader.start and Reader.stop (reader.py:34-43)
\* ------------------------------------------------------------------------
Result(op, outcome, th) == [op |-> op, outcome |-> outcome, thread |-> th]
NoResult == Result("", "", NULL)

Unstarted == {th \in Threads : tpc[th] = "unstarted"}

\* lines 35, 36: self._crud.add_device(name=..., description=..., location_id=...).
\* An add_device without the location_id parameter raises TypeError; any
\* exception of add_device leaves start().
StartSeed(from, to, pool) ==
  /\ mpc = from
  /\ Unstarted \cap pool # {}
  /\ IF ~takes_location_id
     THEN /\ mpc' = "idle"
          /\ mres' = Result("start", "TypeError", NULL)
          /\ UNCHANGED device
     ELSE \E accepted \in BOOLEAN :
            IF accepted
            THEN /\ NextRowId(device) \in DeviceIds
                 /\ device' = device \cup {NextRowId(device)}
                 /\ mpc' = to
                 /\ mres' = NoResult
            ELSE /\ mpc' = "idle"
                 /\ mres' = Result("start", "IntegrityError", NULL)
                 /\ UNCHANGED device
  /\ UNCHANGED <<value_type, value, takes_location_id, av, self_thread, tpc, terr,
                 device_id, test, count, mthread>>

\* lines 37, 38: the Thread is created, stored and started
StartSpawn(pool) ==
  /\ mpc = "spawn"
  /\ LET th == CHOOSE t \in Unstarted \cap pool : TRUE
     IN /\ self_thread' = Some(th)
        /\ tpc' = [tpc EXCEPT ![th] = "while"]
        /\ mres' = Result("start", "ok", Some(th))
  /\ mpc' = "idle"
  /\ UNCHANGED <<storeVars, takes_location_id, av, terr, device_id, test, count, mthread>>

\* lines 41, 42; None.join raises AttributeError
StopSignal ==
  /\ mpc = "idle"
  /\ self_thread' = NULL
  /\ IF self_thread = NULL
     THEN /\ mres' = Result("stop", "AttributeError", NULL)
          /\ UNCHANGED <<mpc, mthread>>
     ELSE /\ mthread' = self_thread
          /\ mpc' = "join"
          /\ mres' = NoResult
  /\ UNCHANGED <<storeVars, takes_location_id, av, tpc, terr, device_id, test, count>>

Terminated(th) == tpc[th] \in {"exited", "crashed"}

\* a stop() that does not wait for the thread
StopJoin_NoWait ==
  /\ mpc = "join"
  /\ mpc' = "idle"
  /\ mthread' = NULL
  /\ mres' = Result("stop", "ok", mthread)
  /\ UNCHANGED <<storeVars, takes_location_id, av, self_thread, tpc, terr, device_id,
                 test, count>>

\* line 43: thread.join() returns once the thread has terminated
StopJoin ==
  /\ mpc = "join"
  /\ Terminated(The(mthread))
  /\ mpc' = "idle"
  /\ mthread' = NULL
  /\ mres' = Result("stop", "ok", mthread)
  /\ UNCHANGED <<storeVars, takes_location_id, av, self_thread, tpc, terr, device_id,
                 test, count>>

\* ------------------------------------------------------------------------
\* Specifications
\* ------------------------------------------------------------------------
InitWith(crud) ==
  /\ value_type = [i \in TypeIds |-> NULL]
  /\ value = {}
  /\ device = {}
  /\ takes_location_id \in crud
  /\ av = [p \in Procs |-> IdleFrame]
  /\ self_thread = NULL
  /\ tpc = [th \in Threads |-> "unstarted"]
  /\ terr = [th \in Threads |-> ""]
  /\ device_id = [th \in Threads |-> NULL]
  /\ test = [th \in Threads |-> NULL]
  /\ count = [th \in Threads |-> 0]
  /\ mpc = "idle"
  /\ mthread = NULL
  /\ mres = NoResult

Init == InitWith(BOOLEAN)

\* the request layer: add_value calls with inputs drawn from in
CallerNext(in, faults) ==
  \/ \E c \in Callers, t \in in.times, ty \in in.types, v \in in.values, d \in in.devices :
       AddValueCall(c, t, ty, v, d)
  \/ \E c \in Callers : AddValueSelect(c)
  \/ \E c \in Callers : AddValueTypeCommit(c)
  \/ \E c \in Callers, locked \in faults : AddValueInsert(c, locked)

DeviceNext ==
  \/ \E accepted \in BOOLEAN : AddDevice(accepted)
  \/ \E d \in DeviceIds : DeleteDevice(d)

\* the threads of the Reader
WorkerNext ==
  \/ \E th \in Threads : RunWhile(th)
  \/ \E th \in Threads : RunChoice(th)
  \/ \E th \in Threads, oserror \in BOOLEAN, b \in Reads : RunRead(th, oserror, b)
  \/ \E th \in Threads : AddValueSelect(th)
  \/ \E th \in Threads : AddValueTypeCommit(th)
  \/ \E th \in Threads, locked \in BOOLEAN : AddValueInsert(th, locked)
  \/ \E th \in Threads : RunAddValueReturn(th)
  \/ \E th \in Threads : RunSleep(th)

\* the caller of start() and stop(); start() creates the Threads of pool
LifecycleNext(pool) ==
  \/ StartSeed("idle", "seed2", pool)
  \/ StartSeed("seed2", "spawn", pool)
  \/ StartSpawn(pool)
  \/ StopSignal
  \/ StopJoin

\* the store under two request-layer callers
StoreInputs == Inputs({1}, {1}, {F1, F2}, {NULL, Some(1)})
StoreNext == CallerNext(StoreInputs, {FALSE}) \/ DeviceNext
SpecStore == InitWith({FALSE}) /\ [][StoreNext]_vars

\* two add_value calls, one per caller, on an empty store that nothing
\* else touches
RaceInputs == Inputs({1}, {1, 2}, {F1, F2}, {NULL, Some(1), Some(2)})
RaceNext ==
  \/ \E c \in Callers, t \in RaceInputs.times, ty \in RaceInputs.types,
        v \in RaceInputs.values, d \in RaceInputs.devices :
       av[c].pc = "idle" /\ AddValueCall(c, t, ty, v, d)
  \/ \E c \in Callers : AddValueSelect(c)
  \/ \E c \in Callers : AddValueTypeCommit(c)
  \/ \E c \in Callers : AddValueInsert(c, FALSE)
SpecRace == InitWith({FALSE}) /\ [][RaceNext]_vars

\* the Reader with one Thread, and devices deleted behind its back
ReaderNext == WorkerNext \/ LifecycleNext({"t1"}) \/ (\E d \in DeviceIds : DeleteDevice(d))
SpecReader == Init /\ [][ReaderNext]_vars

\* the value types under two request-layer callers
TypeNames == {"", "A", "B"}
TypeUnits == {"", "m"}
PutIds == {1}
TypeNext ==
  \/ \E c \in Callers, id \in TypeIds, name \in {NULL, Some("A")}, unit \in {NULL, Some("m")} :
       UpsertCall(c, id, name, unit)
  \/ \E c \in Callers, id \in PutIds, name \in TypeNames, unit \in TypeUnits :
       PutType(c, id, name, unit)
  \/ \E c \in Callers : UpsertSelect(c)
  \/ \E c \in Callers : UpsertCommit(c)
  \/ \E c \in Callers : UpsertReturn(c)
SpecType == InitWith({FALSE}) /\ [][TypeNext]_vars

\* one caller stores values while the other queries them
QueryInputs == Inputs({1, 2}, {1, 2}, {F1}, {NULL})
QueryTypes == {NULL, Some(1)}
QueryTimes == {NULL, Some(1), Some(2)}
QueryNext ==
  \/ \E t \in QueryInputs.times, ty \in QueryInputs.types, v \in QueryInputs.values,
        d \in QueryInputs.devices : AddValueCall("c1", t, ty, v, d)
  \/ AddValueSelect("c1")
  \/ AddValueTypeCommit("c1")
  \/ AddValueInsert("c1", FALSE)
  \/ \E ty \in QueryTypes, start \in QueryTimes, end \in QueryTimes :
       GetValues("c2", ty, start, end)
SpecQuery == InitWith({FALSE}) /\ [][QueryNext]_vars

\* the Reader up to its call of add_value, over records of many byte
\* patterns: the four low bytes of the time and the four bytes of the type
\* vary, the top byte of each below 128 and the four high bytes of the time
\* zero, which keeps every decoded number below 2^31
ByteQuads == {<<a, b, c, d>> : a \in {0, 1, 255}, b \in {0, 1, 255}, c \in {0, 1, 255},
                               d \in {0, 127}}
DecodeBuffers == {t \o <<0, 0, 0, 0>> \o ty \o F1Bytes : t \in ByteQuads, ty \in ByteQuads}
DecodeNext ==
  \/ LifecycleNext({"t1"})
  \/ RunWhile("t1")
  \/ RunChoice("t1")
  \/ \E b \in DecodeBuffers : RunRead("t1", FALSE, b)
SpecDecode == InitWith({TRUE}) /\ [][DecodeNext]_vars

\* start() and stop() called in any order, each start() with a Thread of its
\* own, while the request layer deletes devices; the threads as far as their
\* call of add_value, which the store leaves unanswered
RestartNext ==
  \/ \E th \in Threads : RunWhile(th)
  \/ \E th \in Threads : RunChoice(th)
  \/ \E th \in Threads, b \in Records : RunRead(th, FALSE, b)
  \/ LifecycleNext(Threads)
  \/ \E d \in DeviceIds : DeleteDevice(d)
SpecRestart == InitWith({TRUE}) /\ [][RestartNext]_vars

\* the Reader with one Thread while a request-layer caller puts value types;
\* the device file and the engine raise nothing
IngestNext ==
  \/ RunWhile("t1")
  \/ RunChoice("t1")
  \/ \E b \in Records : RunRead("t1", FALSE, b)
  \/ AddValueSelect("t1")
  \/ AddValueTypeCommit("t1")
  \/ AddValueInsert("t1", FALSE)
  \/ RunAddValueReturn("t1")
  \/ RunSleep("t1")
  \/ LifecycleNext({"t1"})
  \/ \E id \in PutIds, name \in TypeNames, unit \in TypeUnits : PutType("c1", id, name, unit)
  \/ UpsertSelect("c1")
  \/ UpsertCommit("c1")
  \/ UpsertReturn("c1")
SpecIngest == InitWith({TRUE}) /\ [][IngestNext]_vars

\* the Reader of SpecReader under a scheduler that lets a thread that can
\* run take its next step, every read and every store call returning or
\* raising, and under a join that returns once its thread has ended
SpecCancel == Init /\ [][ReaderNext]_vars /\ WF_vars(WorkerNext) /\ WF_vars(StopJoin)

\* every operation of the store that writes: one caller adds values, the
\* other puts value types and updates devices, and devices come and go
OpsInputs == Inputs({1}, {1}, {F1}, {NULL, Some(1)})
OpsNames == {"", "A"}
OpsUnits == {"m"}
OpsNext ==
  \/ \E t \in OpsInputs.times, ty \in OpsInputs.types, v \in OpsInputs.values,
        d \in OpsInputs.devices : AddValueCall("c1", t, ty, v, d)
  \/ AddValueSelect("c1")
  \/ AddValueTypeCommit("c1")
  \/ AddValueInsert("c1", FALSE)
  \/ \E id \in PutIds, name \in OpsNames, unit \in OpsUnits : PutType("c2", id, name, unit)
  \/ UpsertSelect("c2")
  \/ UpsertCommit("c2")
  \/ UpsertReturn("c2")
  \/ \E d \in DeviceIds : UpdateDevice("c2", d)
  \/ UpdateDeviceReturn("c2")
  \/ DeviceNext
SpecOps == InitWith({FALSE}) /\ [][OpsNext]_vars

\* ------------------------------------------------------------------------
\* Properties
\* ------------------------------------------------------------------------
SameTriple(r1, r2) ==
  /\ r1.time = r2.time
  /\ r1.value_type_id = r2.value_type_id
  /\ r1.device_id = r2.device_id

\* the rows that hold the triple of the call frame f
Stored(f) ==
  {r \in value : r.time = f.time /\ r.value_type_id = f.type /\ r.device_id = f.device}

InCall(p) == av[p].pc \in {"select", "commit", "insert"}

\* C1 as stated: no two rows of value share (time, value_type_id, device_id).
C1_TripleUnique ==
  \A r1, r2 \in value : SameTriple(r1, r2) => r1 = r2

\* C1 amended: no two rows of value that have a device share
\* (time, value_type_id, device_id); rows without a device may repeat.
C1_AssignedTripleUnique ==
  \A r1, r2 \in value : r1.device_id # NULL /\ SameTriple(r1, r2) => r1 = r2

\* an add_value of a stored triple with another value has been rejected
C1_Witness ==
  \E c \in Callers :
    /\ av[c].pc = "done" /\ av[c].ret = "IntegrityError" /\ av[c].table = "value"
    /\ \E r \in Stored(av[c]) : r.value # av[c].value

\* C2 as stated: an add_value whose triple is stored with another value
\* changes nothing in the store and raises IntegrityError.
C2_SecondInsertFails ==
  [][\A p \in Callers :
       (InCall(p) /\ av'[p] # av[p] /\ \E r \in Stored(av[p]) : r.value # av[p].value)
       => /\ storeVars' = storeVars
          /\ av'[p].pc = "done" => av'[p].ret = "IntegrityError"]_vars

\* C2 amended: an add_value whose triple, with a device, is stored with
\* another value changes nothing in the store and raises IntegrityError.
C2_SecondAssignedInsertFails ==
  [][\A p \in Callers :
       (InCall(p) /\ av'[p] # av[p] /\ av[p].device # NULL
          /\ \E r \in Stored(av[p]) : r.value # av[p].value)
       => /\ storeVars' = storeVars
          /\ av'[p].pc = "done" => av'[p].ret = "IntegrityError"]_vars

\* the second add_value was rejected; the first value is the only one stored
C2_Witness ==
  \E c \in Callers :
    /\ av[c].pc = "done" /\ av[c].ret = "IntegrityError" /\ av[c].table = "value"
    /\ av[c].device # NULL
    /\ Stored(av[c]) # {}
    /\ \A r \in Stored(av[c]) : r.value # av[c].value

BothDone == \A c \in Callers : av[c].pc = "done"

SameCallTriple ==
  /\ av["c1"].time = av["c2"].time
  /\ av["c1"].type = av["c2"].type
  /\ av["c1"].device = av["c2"].device

ExactlyOneSucceeds ==
  \E c, e \in Callers : c # e /\ av[c].ret = "ok" /\ av[e].ret = "IntegrityError"

C4_AddValueAtomic ==
  \A p \in Callers :
    (av[p].pc \in {"insert", "done"} /\ av[p].loaded = NULL /\ av[p].table # "value_type")
    => \E r \in Stored(av[p]) : r.value = av[p].value

Stopped(th) == Terminated(th) /\ av[th].pc = "idle"

\* C5: when stop() has returned, the thread it joined has left _run and has
\* no add_value in progress.
C5_StopJoinsWorker ==
  (mres.op = "stop" /\ mres.outcome = "ok") => Stopped(The(mres.thread))

\* stop() has returned after the thread stored a value and left by the flag
C5_Witness ==
  /\ mres.op = "stop" /\ mres.outcome = "ok"
  /\ terr[The(mres.thread)] = "stopped"
  /\ value # {}

\* C6: start() returns without raising, with the thread running.
C6_StartSpawns ==
  mres.op = "start" =>
    /\ mres.outcome = "ok"
    /\ self_thread # NULL
    /\ mres.thread # NULL /\ tpc[The(mres.thread)] # "unstarted"

\* C7: after the IntegrityError of add_value the thread has left _run and the
\* Reader no longer holds it as its running thread.
C7_DuplicateStopsReader ==
  \A th \in Threads :
    terr[th] = "All Values read" => Stopped(th) /\ self_thread # Some(th)

\* C8: an empty list of device ids does not end the thread.
C8_EmptyRegistrySkips ==
  \A th \in Threads : terr[th] = "IndexError: choice" => ~Terminated(th)

\* C9: an error of add_value other than the duplicate triple does not end
\* the thread.
C9_OtherErrorContinues ==
  \A th \in Threads : terr[th] = "OperationalError" => ~Terminated(th)

\* C10: add_value is never called with fields decoded from fewer than 16
\* bytes.
C10_ShortReadNoRecord ==
  \A th \in Threads : tpc[th] = "add_value" => Len(The(test[th])) = 16

\* C11: an error of the read or of the decoding does not end the thread.
C11_ReadErrorLocal ==
  \A th \in Threads :
    terr[th] \in {"OSError", "IndexError", "struct.error"} => ~Terminated(th)

\* the call of add_or_update_value_type of caller c commits and returns
UpsertCommits(c) ==
  av[c].pc = "u_commit" /\ av'[c].pc = "u_done" /\ av'[c].ret = "ok"

PlaceholderRow(id) ==
  [type_name |-> Some(<<"TYPE_1", "TYPE_2">>[id]),
   type_unit |-> Some(<<"UNIT_1", "UNIT_2">>[id])]

\* C12: add_or_update_value_type(id) with no name and no unit creates an
\* absent row as ("TYPE_<id>", "UNIT_<id>") and leaves a row that exists,
\* and so the whole store, as it is: a second identical call finds the
\* strings of the first and changes nothing.
C12_UpsertIdempotent ==
  [][\A c \in Callers :
       (UpsertCommits(c) /\ av[c].name = NULL /\ av[c].unit = NULL)
       => /\ value_type' =
               IF value_type[av[c].type] = NULL
               THEN [value_type EXCEPT ![av[c].type] = Some(PlaceholderRow(av[c].type))]
               ELSE value_type
          /\ value' = value /\ device' = device]_vars

\* the second of two identical calls has returned
C12_Witness ==
  \E c \in Callers :
    /\ av[c].pc = "u_done" /\ av[c].ret = "ok"
    /\ av[c].name = NULL /\ av[c].unit = NULL
    /\ av[c].loaded = Some(PlaceholderRow(av[c].type))
    /\ value_type[av[c].type] = Some(PlaceholderRow(av[c].type))

NoBlankType ==
  \A id \in TypeIds :
    value_type[id] # NULL =>
      /\ The(value_type[id]).type_name \notin {NULL, Some("")}
      /\ The(value_type[id]).type_unit \notin {NULL, Some("")}

\* C13: an upsert of a value type that exists, and is stored as the call
\* found it, sets type_name to the name supplied when that is not empty and
\* leaves it otherwise, and the same for type_unit; no stored value type ever
\* has a blank name or unit.
C13_OverwriteNonEmpty ==
  /\ []NoBlankType
  /\ [][\A c \in Callers :
          (UpsertCommits(c) /\ av[c].loaded # NULL /\ value_type[av[c].type] = av[c].loaded)
          => LET old == The(value_type[av[c].type])
                 new == The(value_type'[av[c].type])
             IN /\ new.type_name = IF av[c].name \in {NULL, Some("")}
                                   THEN old.type_name ELSE av[c].name
                /\ new.type_unit = IF av[c].unit \in {NULL, Some("")}
                                   THEN old.type_unit ELSE av[c].unit]_vars

\* put_type with an empty name and the unit "m" has returned: the name "A"
\* is kept and the unit is replaced
C13_Witness ==
  \E c \in Callers :
    /\ av[c].pc = "u_done" /\ av[c].ret = "ok"
    /\ av[c].name = Some("") /\ av[c].unit = Some("m")
    /\ av[c].loaded # NULL
    /\ The(av[c].loaded).type_name = Some("A")
    /\ The(av[c].loaded).type_unit # Some("m")
    /\ value_type[av[c].type] = Some([type_name |-> Some("A"), type_unit |-> Some("m")])

\* C14: get_values(value_type_id, start, end) returns exactly the stored
\* values of that type, of time >= start and of time <= end, where an omitted
\* filter admits every value, each once and in ascending order of time.
C14_GetValuesFiltersAndSorts ==
  [][\A c \in Callers :
       (av'[c].pc = "q_done" /\ av'[c] # av[c])
       => LET q == av'[c]
              wanted == {r \in value :
                           /\ q.type = NULL \/ r.value_type_id = The(q.type)
                           /\ q.start = NULL \/ r.time >= The(q.start)
                           /\ q.end = NULL \/ r.time <= The(q.end)}
          IN /\ {q.result[i] : i \in 1..Len(q.result)} = wanted
             /\ Len(q.result) = Cardinality(wanted)
             /\ \A i, j \in 1..Len(q.result) :
                  i < j => q.result[i].time <= q.result[j].time]_vars

\* a query for type 1 up to time 2 has returned the two values stored, the
\* one inserted last first
C14_Witness ==
  \E c \in Callers :
    /\ av[c].pc = "q_done"
    /\ av[c].type = Some(1) /\ av[c].end = Some(2)
    /\ Len(av[c].result) = 2
    /\ av[c].result[1].time < av[c].result[2].time
    /\ av[c].result[1].id > av[c].result[2].id
    /\ {av[c].result[1], av[c].result[2]} = value

\* C15: when delete_device(d) succeeds, no value of device d is left in the
\* store or in the answer of get_values, and the values of other devices
\* and of no device are all still there, unchanged.
C15_DeleteCascades ==
  [][\A d \in DeviceIds :
       (d \in device /\ d \notin device')
       => /\ \A r \in value' : r.device_id # Some(d)
          /\ \A r \in value : r.device_id = Some(d) =>
               r \notin Matching(value', value_type', NULL, NULL, NULL)
          /\ {r \in value : r.device_id # Some(d)} = value']_vars

\* device 1 is deleted and the value with id 1 went with it, while the
\* later value of no device is still stored
C15_Witness ==
  /\ 1 \notin device
  /\ \A r \in value : r.id # 1
  /\ \E r \in value : r.id = 2 /\ r.device_id = NULL

\* C16: the time passed to add_value is the sum of byte[i] * 256^i over the
\* first eight bytes of the buffer and the type the same sum over bytes 8 to
\* 11, so that writing both back least significant byte first gives bytes 0
\* to 7 and 8 to 11 of the buffer.
C16_LittleEndianRoundTrip ==
  \A th \in Threads :
    tpc[th] = "add_value" =>
      LET b == The(test[th])
      IN /\ Len(b) = 16
         /\ SubSeq(b, 5, 8) = <<0, 0, 0, 0>>
         /\ av[th].time = b[1] + 256 * b[2] + 65536 * b[3] + 16777216 * b[4]
         /\ av[th].type = b[9] + 256 * b[10] + 65536 * b[11] + 16777216 * b[12]
         /\ LittleEndian(av[th].time, 8) = SubSeq(b, 1, 8)
         /\ LittleEndian(av[th].type, 4) = SubSeq(b, 9, 12)

\* a record whose time and type have bytes set at every place was decoded
C16_Witness ==
  \E th \in Threads :
    /\ tpc[th] = "add_value"
    /\ SubSeq(The(test[th]), 1, 4) = <<1, 255, 1, 127>>
    /\ SubSeq(The(test[th]), 9, 12) = <<255, 1, 255, 127>>
    /\ av[th].time = 2130837249

Alive(th) == tpc[th] \notin {"unstarted", "exited", "crashed"}

\* C17: at most one thread is in _run at any time, and when stop() has
\* returned every thread that was started has left _run.
C17_SingleWorker ==
  /\ Cardinality({th \in Threads : Alive(th)}) <= 1
  /\ (mres.op = "stop" /\ mres.outcome = "ok") => \A th \in Threads : ~Alive(th)

\* C18: the thread leaves _run by "All Values read" only when add_value
\* has failed on a triple that a stored value holds.
C18_StopOnlyOnDuplicate ==
  [][\A th \in Threads :
       (terr'[th] = "All Values read" /\ terr[th] # "All Values read")
       => Stored(av[th]) # {}]_vars

\* stop() has cleared self._thread after th was started
Signalled(th) == self_thread = NULL /\ tpc[th] # "unstarted"

\* C19: once stop() has cleared self._thread, the thread goes from the loop
\* test nowhere but out of _run, so that after the iteration it was in (which
\* holds at most one call of add_value) it is never in an iteration again;
\* and the thread ends and stop() returns.
C19_CooperativeStop ==
  /\ [][\A th \in Threads :
          (Signalled(th) /\ tpc[th] = "while") => tpc'[th] \in {"while", "exited"}]_vars
  /\ \A th \in Threads :
       [](Signalled(th) /\ tpc[th] \in {"sleep", "while"}
            => [](tpc[th] \in {"sleep", "while", "exited"}))
  /\ \A th \in Threads :
       (mpc = "join" /\ mthread = Some(th))
         ~> (Terminated(th) /\ mpc = "idle" /\ mres = Result("stop", "ok", Some(th)))

\* stop() has cleared self._thread while the thread is about to insert a value
C19_Witness ==
  \E th \in Threads :
    /\ Signalled(th) /\ mpc = "join" /\ mthread = Some(th)
    /\ tpc[th] = "add_value" /\ av[th].pc = "insert"

\* C20: in every step of every store operation each stored value stays as
\* it is, with its id, time, value, value_type_id and device_id, unless the
\* step deletes the device the value belongs to.
C20_ValuesImmutable ==
  [][\A r \in value :
       \/ r \in value'
       \/ /\ r.device_id # NULL
          /\ The(r.device_id) \in device
          /\ The(r.device_id) \notin device']_vars

\* put_type has renamed value type 1, and device 1 was deleted with its
\* value, the first stored; the value of no device stored after it is still
\* there
C20_Witness ==
  /\ 1 \notin device
  /\ \A r \in value : r.id # 1
  /\ \E r \in value : r.id = 2 /\ r.device_id = NULL
  /\ av["c2"].pc = "u_done" /\ av["c2"].ret = "ok" /\ av["c2"].name = Some("A")
  /\ The(value_type[1]).type_name = Some("A")

\* C21: the device_id of every stored value is None or the id of a device
\* that exists.
C21_ReferentialIntegrity ==
  \A r \in value : r.device_id = NULL \/ The(r.device_id) \in device

\* C22 as stated: no two stored values without a device share
\* (time, value_type_id).
C22_UnassignedUnique ==
  \A r1, r2 \in value :
    (r1.device_id = NULL /\ r2.device_id = NULL
       /\ r1.time = r2.time /\ r1.value_type_id = r2.value_type_id)
    => r1 = r2

\* C22 amended: the insert of an add_value without a device is never
\* rejected; it returns and adds its row to the values stored, whatever
\* values without a device the store holds.
C22_UnassignedInsertSucceeds ==
  [][\A p \in Callers :
       (av[p].pc = "insert" /\ av[p].device = NULL /\ av'[p].pc = "done")
       => /\ av'[p].ret = "ok"
          /\ value \subseteq value'
          /\ \E r \in value' \ value :
               /\ r.time = av[p].time /\ r.value_type_id = av[p].type
               /\ r.value = av[p].value /\ r.device_id = NULL]_vars

\* both callers have stored a value of the same time and type and of no
\* device
C22_Witness ==
  /\ \A c \in Callers : av[c].pc = "done" /\ av[c].ret = "ok" /\ av[c].device = NULL
  /\ av["c1"].time = av["c2"].time /\ av["c1"].type = av["c2"].type
  /\ Cardinality({r \in value : r.device_id = NULL /\ r.time = av["c1"].time
                                  /\ r.value_type_id = av["c1"].type}) = 2

====
